---------------------------- MODULE Spec2Model ----------------------------
(***************************************************************************)
(* Model of lib/operator.js of ali-rds: the SQL statement composer         *)
(* (class Operator) in front of an abstract execution delegate (_query).   *)
(*                                                                         *)
(* SQL text is a sequence of tokens.  A token is a record [c, o]: c is the *)
(* text of the token (one character for everything that comes from caller  *)
(* data, a whole literal for text written in operator.js) and o is a ghost *)
(* origin tag that the program does not have:                              *)
(*   "t"  literal template text of operator.js                             *)
(*   "e"  output of escape / escapeId substituted for a template           *)
(*        placeholder                                                      *)
(*   "r"  caller data concatenated without the escaper                     *)
(*   "x"  output of escape / escapeId substituted for question marks that  *)
(*        were not template text (text of an earlier pass read again as    *)
(*        a placeholder)                                                   *)
(* Chars(text) forgets the tags and is the text the program produces.      *)
(***************************************************************************)
EXTENDS Naturals, Sequences, FiniteSets, TLC

VARIABLES opts, supplied, calls, arg, out

vars == <<opts, supplied, calls, arg, out>>

-----------------------------------------------------------------------------
(* JavaScript values *)

Undef == [t |-> "undef"]
Null == [t |-> "null"]
Num(n) == [t |-> "num", n |-> n]
Str(s) == [t |-> "str", s |-> s]
Arr(xs) == [t |-> "arr", xs |-> xs]
Obj(kv) == [t |-> "obj", kv |-> kv]

KV(k, v) == [k |-> k, v |-> v]

\* !v
Falsy(v) ==
    \/ v.t \in {"undef", "null"}
    \/ v.t = "num" /\ v.n = 0
    \/ v.t = "str" /\ v.s = <<>>

\* key in obj / obj.hasOwnProperty(key)
HasKey(obj, k) == obj.t = "obj" /\ \E i \in 1..Len(obj.kv) : obj.kv[i].k = k

\* obj[key]
Get(obj, k) ==
    IF HasKey(obj, k)
    THEN obj.kv[CHOOSE i \in 1..Len(obj.kv) : obj.kv[i].k = k].v
    ELSE Undef

\* Object.keys(obj)
Keys(obj) == Arr([i \in 1..Len(obj.kv) |-> Str(obj.kv[i].k)])

\* for (const key in obj): the own enumerable keys, none for a non-object
ForIn(obj) == IF obj.t = "obj" THEN obj.kv ELSE <<>>

-----------------------------------------------------------------------------
(* Text *)

Tok(c, o) == [c |-> c, o |-> o]

\* a literal of operator.js
T(s) == <<Tok(s, "t")>>

\* the placeholders ? and ?? of a template
Q == <<Tok("?", "t")>>
QQ == <<Tok("?", "t"), Tok("?", "t")>>

Tag(s, o) == [i \in 1..Len(s) |-> Tok(s[i], o)]

Retag(text, o) == [i \in 1..Len(text) |-> Tok(text[i].c, o)]

Chars(text) == [i \in 1..Len(text) |-> text[i].c]

RECURSIVE Concat(_)
Concat(texts) ==
    IF texts = <<>> THEN <<>> ELSE Head(texts) \o Concat(Tail(texts))

\* Array.prototype.join
RECURSIVE Join(_, _)
Join(texts, sep) ==
    IF texts = <<>> THEN <<>>
    ELSE IF Len(texts) = 1 THEN texts[1]
    ELSE texts[1] \o sep \o Join(Tail(texts), sep)

Digit(d) ==
    CASE d = 0 -> "0" [] d = 1 -> "1" [] d = 2 -> "2" [] d = 3 -> "3"
      [] d = 4 -> "4" [] d = 5 -> "5" [] d = 6 -> "6" [] d = 7 -> "7"
      [] d = 8 -> "8" [] d = 9 -> "9"

\* String(n) of a natural number, one character per digit
RECURSIVE NumStr(_)
NumStr(n) == IF n < 10 THEN <<Digit(n)>> ELSE NumStr(n \div 10) \o <<Digit(n % 10)>>

LowerCase == <<"a", "b", "c", "d", "e", "f", "g", "h", "i", "j", "k", "l", "m",
               "n", "o", "p", "q", "r", "s", "t", "u", "v", "w", "x", "y", "z">>
UpperCase == <<"A", "B", "C", "D", "E", "F", "G", "H", "I", "J", "K", "L", "M",
               "N", "O", "P", "Q", "R", "S", "T", "U", "V", "W", "X", "Y", "Z">>

UpperChar(c) ==
    IF \E i \in 1..26 : LowerCase[i] = c
    THEN UpperCase[CHOOSE i \in 1..26 : LowerCase[i] = c]
    ELSE c

\* String.prototype.toUpperCase
toUpperCase(s) == [i \in 1..Len(s) |-> UpperChar(s[i])]

\* String(v)
RECURSIVE ToStr(_)
ToStr(v) ==
    CASE v.t = "str" -> v.s
      [] v.t = "num" -> NumStr(v.n)
      [] v.t = "null" -> <<"n", "u", "l", "l">>
      [] v.t = "undef" -> <<"u", "n", "d", "e", "f", "i", "n", "e", "d">>
      [] v.t = "arr" -> Join([i \in 1..Len(v.xs) |-> ToStr(v.xs[i])], <<",">>)
      [] OTHER -> <<"[", "o", "b", "j", "e", "c", "t", " ", "O", "b", "j", "e", "c", "t", "]">>

-----------------------------------------------------------------------------
(* The escaper and the positional formatter (lib/sqlstring.js) *)

\* the grave accent character that quotes an identifier
BT == "BT"

EscChar(c) == IF c \in {"'", "\"", "\\"} THEN <<"\\", c>> ELSE <<c>>

EscStr(s) == <<"'">> \o Concat([i \in 1..Len(s) |-> EscChar(s[i])]) \o <<"'">>

\* SqlString.escape, as plain characters
RECURSIVE EscapeChars(_)
EscapeElem(v) ==
    IF v.t = "arr" THEN <<"(">> \o EscapeChars(v) \o <<")">> ELSE EscapeChars(v)

EscapeChars(v) ==
    CASE v.t \in {"undef", "null"} -> <<"N", "U", "L", "L">>
      [] v.t = "num" -> NumStr(v.n)
      [] v.t = "str" -> EscStr(v.s)
      [] v.t = "arr" -> Join([i \in 1..Len(v.xs) |-> EscapeElem(v.xs[i])], <<",", " ">>)
      [] OTHER ->
            Join([i \in 1..Len(v.kv) |->
                     <<BT>> \o v.kv[i].k \o <<BT, " ", "=", " ">>
                         \o EscapeChars(v.kv[i].v)],
                 <<",", " ">>)

IdChar(c) ==
    IF c = BT THEN <<BT, BT>> ELSE IF c = "." THEN <<BT, ".", BT>> ELSE <<c>>

\* SqlString.escapeId, as plain characters
RECURSIVE EscapeIdChars(_)
EscapeIdChars(v) ==
    IF v.t = "arr"
    THEN Join([i \in 1..Len(v.xs) |-> EscapeIdChars(v.xs[i])], <<",", " ">>)
    ELSE LET s == ToStr(v)
         IN  <<BT>> \o Concat([i \in 1..Len(s) |-> IdChar(s[i])]) \o <<BT>>

\* Operator.escape
escape(value) == Tag(EscapeChars(value), "e")

\* Operator.escapeId
escapeId(value) == Tag(EscapeIdChars(value), "e")

\* length of the run of question marks at the head of sql
RECURSIVE RunLen(_)
RunLen(sql) ==
    IF sql # <<>> /\ Head(sql).c = "?" THEN 1 + RunLen(Tail(sql)) ELSE 0

Drop(s, n) == SubSeq(s, n + 1, Len(s))

\* SqlString.format: left to right, ?? takes the next value as an identifier, a
\* single ? takes it as a value; placeholders beyond the values stay as they are.
RECURSIVE SqlStringFormat(_, _)
SqlStringFormat(sql, values) ==
    IF sql = <<>> \/ values = <<>> THEN sql
    ELSE IF Head(sql).c # "?" THEN <<Head(sql)>> \o SqlStringFormat(Tail(sql), values)
    ELSE LET n == RunLen(sql)
             template == \A i \in 1..n : sql[i].o = "t"
             text == IF n = 2 THEN escapeId(Head(values)) ELSE escape(Head(values))
         IN  IF n > 2
             THEN SubSeq(sql, 1, n) \o SqlStringFormat(Drop(sql, n), values)
             ELSE (IF template THEN text ELSE Retag(text, "x"))
                      \o SqlStringFormat(Drop(sql, n), Tail(values))

\* Operator.format with an array of values (positional mode)
format(sql, values) == SqlStringFormat(sql, values)

-----------------------------------------------------------------------------
(* Clause builders *)

WhereFragment(value) ==
    IF value.t = "arr" THEN QQ \o T(" IN (") \o Q \o T(")")
    ELSE IF value.t \in {"null", "undef"} THEN QQ \o T(" IS ") \o Q
    ELSE QQ \o T(" = ") \o Q

\* _where with a slip: a null or undefined value takes the comparison of a scalar
where_null_as_scalar(where) ==
    IF Falsy(where) THEN <<>>
    ELSE LET kv == ForIn(where)
             frag(v) == IF v.t = "arr" THEN QQ \o T(" IN (") \o Q \o T(")")
                        ELSE QQ \o T(" = ") \o Q
             wheres == [i \in 1..Len(kv) |-> frag(kv[i].v)]
             values == Concat([i \in 1..Len(kv) |-> <<Str(kv[i].k), kv[i].v>>])
         IN  IF Len(wheres) > 0
             THEN format(T(" WHERE") \o T(" ") \o Join(wheres, T(" AND ")), values)
             ELSE <<>>

\* Operator._where
_where(where) ==
    IF Falsy(where) THEN <<>>
    ELSE LET kv == ForIn(where)
             wheres == [i \in 1..Len(kv) |-> WhereFragment(kv[i].v)]
             values == Concat([i \in 1..Len(kv) |-> <<Str(kv[i].k), kv[i].v>>])
         IN  IF Len(wheres) > 0
             THEN format(T(" WHERE") \o T(" ") \o Join(wheres, T(" AND ")), values)
             ELSE <<>>

\* xs[i], undefined beyond the end
At(xs, i) == IF i \in 1..Len(xs) THEN xs[i] ELSE Undef

\* property names that operator.js reads
ID == <<"i", "d">>
ROW == <<"r", "o", "w">>
WHERE_ == <<"w", "h", "e", "r", "e">>

\* Operator._selectColumns
_selectColumns(table, columns) ==
    LET cols == IF Falsy(columns) THEN Str(<<"*">>) ELSE columns
    IN  IF cols = Str(<<"*">>)
        THEN format(T("SELECT * FROM ") \o QQ, <<table>>)
        ELSE format(T("SELECT ") \o QQ \o T(" FROM ") \o QQ, <<cols, table>>)

OrderText(value) ==
    IF value.t = "str" THEN escapeId(value)
    ELSE LET sort == toUpperCase(ToStr(At(value.xs, 2)))
         IN  IF sort \in {<<"A", "S", "C">>, <<"D", "E", "S", "C">>}
             THEN escapeId(At(value.xs, 1)) \o T(" ") \o Tag(sort, "r")
             ELSE escapeId(At(value.xs, 1))

\* Operator._orders
_orders(orders) ==
    IF Falsy(orders) THEN <<>>
    ELSE LET list == IF orders.t = "str" THEN <<orders>> ELSE orders.xs
             used == SelectSeq(list, LAMBDA v : v.t \in {"str", "arr"})
             values == [i \in 1..Len(used) |-> OrderText(used[i])]
         IN  T(" ORDER BY ") \o Join(values, T(", "))

\* Operator._limit
_limit(limit, offset) ==
    IF Falsy(limit) \/ limit.t # "num" THEN <<>>
    ELSE LET off == IF offset.t # "num" THEN 0 ELSE offset.n
         IN  T(" LIMIT ") \o Tag(NumStr(off), "r") \o T(", ") \o Tag(NumStr(limit.n), "r")

-----------------------------------------------------------------------------
(* Statement composition: what each public operation does before it awaits  *)
(* the delegate.  The result is [thrown, sql, options]: thrown is "none"    *)
(* when query(sql) is reached, "config" for a throw new Error of            *)
(* operator.js, "type" for a TypeError of the runtime; options is the       *)
(* options object as the operation leaves it.                               *)

NoOptions == [columns |-> Undef, where |-> Undef, orders |-> Undef,
              limit |-> Undef, offset |-> Undef]

Composed(sql, options) == [thrown |-> "none", sql |-> sql, options |-> options]
Thrown(kind, options) == [thrown |-> kind, sql |-> <<>>, options |-> options]

\* Operator.count
count(table, where) ==
    Composed(format(T("SELECT COUNT(*) as count FROM ") \o QQ, <<table>>)
                 \o _where(where),
             NoOptions)

\* Operator.select
select(table, options) ==
    Composed(_selectColumns(table, options.columns)
                 \o _where(options.where)
                 \o _orders(options.orders)
                 \o _limit(options.limit, options.offset),
             options)

\* Operator.get
get(table, where, options) ==
    select(table, [options EXCEPT !.where = where, !.limit = Num(1), !.offset = Num(0)])

\* for (const column of columns)
ColumnList(columns) ==
    IF columns.t = "arr" THEN columns.xs
    ELSE [i \in 1..Len(columns.s) |-> Str(<<columns.s[i]>>)]

\* Operator.insert
insert(table, rows, options) ==
    LET firstObj == IF rows.t = "arr" THEN At(rows.xs, 1) ELSE rows
        list == IF rows.t = "arr" THEN rows.xs ELSE <<rows>>
    IN  IF Falsy(options.columns) /\ firstObj.t \in {"undef", "null"}
        THEN Thrown("type", options)
        ELSE LET opt == IF Falsy(options.columns)
                        THEN [options EXCEPT !.columns = Keys(firstObj)]
                        ELSE options
                 columns == ColumnList(opt.columns)
                 values(row) == Arr([j \in 1..Len(columns) |-> Get(row, ToStr(columns[j]))])
                 params == <<table, opt.columns>> \o [i \in 1..Len(list) |-> values(list[i])]
                 strs == [i \in 1..Len(list) |-> T("(") \o Q \o T(")")]
             IN  Composed(format(T("INSERT INTO ") \o QQ \o T("(") \o QQ \o T(") VALUES")
                                     \o Join(strs, T(", ")),
                                 params),
                          opt)

\* update with a slip: no check that the row has an id when options.where is
\* not set
update_without_guard(table, row, options) ==
    LET opt1 == IF Falsy(options.columns)
                THEN [options EXCEPT !.columns = Keys(row)]
                ELSE options
        opt == IF Falsy(opt1.where) /\ HasKey(row, ID)
               THEN [opt1 EXCEPT !.where = Obj(<<KV(ID, Get(row, ID))>>)]
               ELSE opt1
        columns == ColumnList(opt.columns)
        sets == [i \in 1..Len(columns) |-> QQ \o T(" = ") \o Q]
        values == Concat([i \in 1..Len(columns) |->
                             <<columns[i], Get(row, ToStr(columns[i]))>>])
    IN  Composed(format(T("UPDATE ") \o QQ \o T(" SET "), <<table>>)
                     \o format(Join(sets, T(", ")), values)
                     \o _where(opt.where),
                 opt)

\* Operator.update
update(table, row, options) ==
    LET opt1 == IF Falsy(options.columns)
                THEN [options EXCEPT !.columns = Keys(row)]
                ELSE options
    IN  IF Falsy(opt1.where) /\ ~HasKey(row, ID)
        THEN Thrown("config", opt1)
        ELSE LET opt == IF Falsy(opt1.where)
                        THEN [opt1 EXCEPT !.where = Obj(<<KV(ID, Get(row, ID))>>)]
                        ELSE opt1
                 columns == ColumnList(opt.columns)
                 sets == [i \in 1..Len(columns) |-> QQ \o T(" = ") \o Q]
                 values == Concat([i \in 1..Len(columns) |->
                                      <<columns[i], Get(row, ToStr(columns[i]))>>])
             IN  Composed(format(T("UPDATE ") \o QQ \o T(" SET "), <<table>>)
                              \o format(Join(sets, T(", ")), values)
                              \o _where(opt.where),
                          opt)

\* a === b as Array.prototype.indexOf applies it: arrays and objects built
\* apart are never the same
StrictEq(a, b) == a.t \notin {"arr", "obj"} /\ a = b

\* the distinct elements of a sequence, in order of first occurrence; strict
\* tells whether elements are compared by === or as keys of an object
RECURSIVE Distinct(_, _)
Distinct(xs, strict) ==
    IF xs = <<>> THEN <<>>
    ELSE LET init == Distinct(SubSeq(xs, 1, Len(xs) - 1), strict)
             last == xs[Len(xs)]
             same(a, b) == IF strict THEN StrictEq(a, b) ELSE a = b
         IN  IF \E i \in 1..Len(init) : same(init[i], last)
             THEN init
             ELSE Append(init, last)

\* updateRows: an option the forEach callback accepts
OptionOk(option) ==
    HasKey(option, ID) \/ (~Falsy(Get(option, ROW))
                             /\ ~Falsy(Get(option, WHERE_)))

\* updateRows: convert { id, column } to { row: { column }, where: { id } }
Normalize(option) ==
    IF HasKey(option, ID)
    THEN [row |-> Obj(SelectSeq(option.kv, LAMBDA e : e.k # ID)),
          where |-> Obj(<<KV(ID, Get(option, ID))>>)]
    ELSE [row |-> Get(option, ROW),
          where |-> Get(option, WHERE_)]

\* updateRows: the text of _where(option.where) after its WHERE keyword
Condition(where) ==
    LET text == _where(where)
    IN  IF \E i \in 1..Len(text) : text[i].c = " WHERE"
        THEN Drop(text, CHOOSE i \in 1..Len(text) :
                           /\ text[i].c = " WHERE"
                           /\ \A j \in 1..(i - 1) : text[j].c # " WHERE")
        ELSE text

\* updateRows: the keys of SQL_CASE, in the order they were added
CaseKeys(norm) ==
    Distinct(Concat([i \in 1..Len(norm) |->
                        [j \in 1..Len(ForIn(norm[i].row)) |-> ForIn(norm[i].row)[j].k]]),
             FALSE)

\* updateRows: the object WHERE, each key with the distinct values pushed for it
WhereKeys(norm) ==
    Distinct(Concat([i \in 1..Len(norm) |->
                        [j \in 1..Len(ForIn(norm[i].where)) |-> ForIn(norm[i].where)[j].k]]),
             FALSE)

WHERE(norm) ==
    LET keys == WhereKeys(norm)
        having(key) == SelectSeq(norm, LAMBDA o : HasKey(o.where, key))
        pushed(key) == [i \in 1..Len(having(key)) |-> Get(having(key)[i].where, key)]
    IN  Obj([k \in 1..Len(keys) |-> KV(keys[k], Arr(Distinct(pushed(keys[k]), TRUE)))])

\* updateRows: the template ' ?? = CASE ... ELSE ?? END ' of one key of SQL_CASE
CaseTemplate(norm, key) ==
    LET having == SelectSeq(norm, LAMBDA o : HasKey(o.row, key))
        when == [i \in 1..Len(having) |->
                    T(" WHEN ") \o Condition(having[i].where) \o T(" THEN ") \o Q \o T(" ")]
    IN  T(" ") \o QQ \o T(" = CASE ") \o Join(when, T(" ")) \o T(" ELSE ") \o QQ \o T(" END ")

\* updateRows: the values pushed to VALUES for one key of SQL_CASE
CaseValues(norm, key) ==
    LET having == SelectSeq(norm, LAMBDA o : HasKey(o.row, key))
    IN  <<Str(key)>> \o [i \in 1..Len(having) |-> Get(having[i].row, key)] \o <<Str(key)>>

\* Operator.updateRows
updateRows(table, options) ==
    IF options.t # "arr" THEN Thrown("config", NoOptions)
    ELSE IF \E i \in 1..Len(options.xs) : ~OptionOk(options.xs[i])
    THEN Thrown("config", NoOptions)
    ELSE LET norm == [i \in 1..Len(options.xs) |-> Normalize(options.xs[i])]
             keys == CaseKeys(norm)
             TEMPLATE == [k \in 1..Len(keys) |-> CaseTemplate(norm, keys[k])]
             VALUES == <<table>> \o Concat([k \in 1..Len(keys) |-> CaseValues(norm, keys[k])])
             SQL == T("UPDATE ") \o QQ \o T(" SET ") \o Join(TEMPLATE, T(" , "))
                        \o _where(WHERE(norm))
         IN  Composed(format(SQL, VALUES), NoOptions)

\* Operator.delete
delete(table, where) ==
    Composed(format(T("DELETE FROM ") \o QQ, <<table>>) \o _where(where), NoOptions)

LockTypes == {<<"R", "E", "A", "D">>,
              <<"W", "R", "I", "T", "E">>,
              <<"R", "E", "A", "D", " ", "L", "O", "C", "A", "L">>,
              <<"L", "O", "W", "_", "P", "R", "I", "O", "R", "I", "T", "Y", " ",
                "W", "R", "I", "T", "E">>}

TABLENAME == <<"t", "a", "b", "l", "e", "N", "a", "m", "e">>
LOCKTYPE == <<"l", "o", "c", "k", "T", "y", "p", "e">>
TABLEALIAS == <<"t", "a", "b", "l", "e", "A", "l", "i", "a", "s">>

\* #locks: an entry that passes the three checks of the loop
LockOk(table) ==
    /\ ~Falsy(Get(table, TABLENAME))
    /\ ~Falsy(Get(table, LOCKTYPE))
    /\ toUpperCase(Get(table, LOCKTYPE).s) \in LockTypes

\* #locks: the text the loop appends for entry i
LockText(table, i) ==
    (IF i > 1 THEN T(", ") ELSE <<>>)
        \o T(" ") \o escapeId(Get(table, TABLENAME)) \o T(" ")
        \o (IF ~Falsy(Get(table, TABLEALIAS))
            THEN T(" AS ") \o escapeId(Get(table, TABLEALIAS)) \o T(" ")
            ELSE <<>>)
        \o T(" ") \o Tag(Get(table, LOCKTYPE).s, "r")

\* #locks with a slip: the lock type is not compared with the four lock types
locks_any_type(tableLocks) ==
    IF Len(tableLocks.xs) = 0 THEN Thrown("config", NoOptions)
    ELSE IF \E i \in 1..Len(tableLocks.xs) :
                \/ Falsy(Get(tableLocks.xs[i], TABLENAME))
                \/ Falsy(Get(tableLocks.xs[i], LOCKTYPE))
    THEN Thrown("config", NoOptions)
    ELSE Composed(T("LOCK TABLES ")
                      \o Concat([i \in 1..Len(tableLocks.xs) |-> LockText(tableLocks.xs[i], i)])
                      \o T(";"),
                  NoOptions)

\* Operator.#locks
hash_locks(tableLocks) ==
    IF Len(tableLocks.xs) = 0 THEN Thrown("config", NoOptions)
    ELSE IF \E i \in 1..Len(tableLocks.xs) : ~LockOk(tableLocks.xs[i])
    THEN Thrown("config", NoOptions)
    ELSE Composed(T("LOCK TABLES ")
                      \o Concat([i \in 1..Len(tableLocks.xs) |-> LockText(tableLocks.xs[i], i)])
                      \o T(";"),
                  NoOptions)

\* Operator.locks
locks(tables) == hash_locks(tables)

\* Operator.lockOne
lockOne(tableName, lockType, tableAlias) ==
    hash_locks(Arr(<<Obj(<<KV(TABLENAME, tableName), KV(LOCKTYPE, lockType),
                           KV(TABLEALIAS, tableAlias)>>)>>))

\* Operator.unlock
unlock == Composed(T("UNLOCK TABLES;"), NoOptions)

-----------------------------------------------------------------------------
(* Operator.query and the execution delegate *)

NoError == [kind |-> "none", id |-> "", stack |-> <<>>]

\* query, up to await this._query(sql): one more call of the delegate
queryCall(call, sql) == [call EXCEPT !.st = "await", !.sql = sql, !.nq = @ + 1]

\* the catch of query with a slip: a new error is thrown in place of err
catch_wraps_error(err, sql) ==
    [kind |-> "delegate", id |-> "Error",
     stack |-> <<"Error">> \o <<"\n    sql: ">> \o Chars(sql)]

\* query, catch (err): err.stack = err.stack + '\n    sql: ' + sql; throw err
queryCatch(err, sql) ==
    [kind |-> "delegate", id |-> err.id,
     stack |-> err.stack \o <<"\n    sql: ">> \o Chars(sql)]

COUNT == <<"c", "o", "u", "n", "t">>

\* what the operation does with the rows query returns: the value it returns,
\* or the TypeError of rows[0].count when there is no row 0
Projection(op, rows) ==
    CASE op = "count" ->
            IF At(rows.xs, 1).t = "undef"
            THEN [thrown |-> "type", value |-> Undef]
            ELSE [thrown |-> "none", value |-> Get(At(rows.xs, 1), COUNT)]
      [] op = "get" ->
            [thrown |-> "none",
             value |-> IF Falsy(rows) \/ Falsy(At(rows.xs, 1)) THEN Null ELSE At(rows.xs, 1)]
      [] OTHER -> [thrown |-> "none", value |-> rows]

-----------------------------------------------------------------------------
(* The calls.  A call site holds the call it made last; opts is one options *)
(* object that the caller keeps and may pass to any call, supplied is its   *)
(* content as the caller built it.  In a call record, entry is the content  *)
(* of the options argument when the call was made, rows and raised are what *)
(* the delegate answered.  Site "a" makes every kind of call, with or       *)
(* without the kept options object; site "b" runs beside it and makes get   *)
(* and update calls, always passing the kept object.                        *)

Sites == {"a", "b"}

\* whether a call at site s may pass (TRUE) or omit (FALSE) the kept object
Sharing(s) == IF s = "a" THEN BOOLEAN ELSE {TRUE}

Idle == [op |-> "", args |-> [shared |-> FALSE], entry |-> NoOptions, st |-> "idle",
         sql |-> <<>>, nq |-> 0, err |-> NoError, res |-> Undef,
         rows |-> Undef, raised |-> NoError]

Free(s) == calls[s].st \in {"idle", "returned", "failed"}

\* the effect of the synchronous part of an operation, r being what it composed
Start(s, op, args, entry, r) ==
    LET fresh == [Idle EXCEPT !.op = op, !.args = args, !.entry = entry]
    IN  /\ calls' = [calls EXCEPT ![s] =
                        IF r.thrown = "none"
                        THEN queryCall(fresh, r.sql)
                        ELSE [fresh EXCEPT !.st = "failed",
                                           !.err = [NoError EXCEPT !.kind = r.thrown]]]
        /\ opts' = IF args.shared THEN r.options ELSE opts
        /\ UNCHANGED <<supplied, arg, out>>

\* options = options || {}
Options(shared) == IF shared THEN opts ELSE NoOptions

TableT == Str(<<"t">>)
NAME == <<"n">>
Row1 == Obj(<<KV(ID, Num(1)), KV(NAME, Str(<<"a">>))>>)
Row2 == Obj(<<KV(ID, Num(2)), KV(NAME, Str(<<"b">>))>>)
RowNoId == Obj(<<KV(NAME, Str(<<"c">>))>>)
RowWhere == Obj(<<KV(ROW, RowNoId), KV(WHERE_, Obj(<<KV(ID, Num(3))>>))>>)

WhereArgs == {Undef, Obj(<<KV(ID, Num(1))>>)}

SuppliedArgs ==
    {NoOptions,
     [NoOptions EXCEPT !.where = Obj(<<>>), !.limit = Num(5)]}

RowsArgs == {Arr(<<Row1, Row2>>), Arr(<<>>)}

BatchArgs == {Row1, Arr(<<Row1, RowNoId>>), Arr(<<RowWhere, Row2>>)}

Lock(name, type, alias) ==
    Obj(<<KV(TABLENAME, name), KV(LOCKTYPE, type), KV(TABLEALIAS, alias)>>)

READ == Str(<<"R", "E", "A", "D">>)
LowerWrite == Str(<<"w", "r", "i", "t", "e">>)
Bogus == Str(<<"b", "o", "g", "u", "s">>)
AliasX == Str(<<"x">>)

LockArgs == {Lock(TableT, LowerWrite, AliasX),
             Lock(Undef, READ, Undef), Lock(TableT, Undef, Undef),
             Lock(TableT, Bogus, Undef)}

LocksArgs == {Arr(<<>>)} \cup {Arr(<<Lock(TableT, READ, Undef), l>>) : l \in LockArgs}

\* what the delegate may answer: no row or one row; the operations other than
\* count and get hand the rows on whatever they are
DelegateRows(op) ==
    IF op \in {"count", "get"}
    THEN {Arr(<<>>), Arr(<<Obj(<<KV(COUNT, Num(2))>>)>>)}
    ELSE {Arr(<<Obj(<<KV(COUNT, Num(2))>>)>>)}
DelegateErrors == {[kind |-> "delegate", id |-> "E1", stack |-> <<"E1">>]}

\* arg and out: the argument and the result of a builder applied on its own
NotApplied == [op |-> "", r |-> Composed(<<>>, NoOptions)]

Init ==
    /\ supplied \in SuppliedArgs
    /\ opts = supplied
    /\ calls = [s \in Sites |-> Idle]
    /\ arg = Undef
    /\ out = Undef

Count(s) ==
    /\ s = "a"
    /\ Free(s)
    /\ \E where \in WhereArgs :
          Start(s, "count", [shared |-> FALSE, table |-> TableT, where |-> where],
                NoOptions, count(TableT, where))

Select(s) ==
    /\ s = "a"
    /\ Free(s)
    /\ \E shared \in Sharing(s) :
          Start(s, "select", [shared |-> shared, table |-> TableT],
                Options(shared), select(TableT, Options(shared)))

Get_(s) ==
    /\ Free(s)
    /\ \E shared \in Sharing(s), where \in {Obj(<<KV(ID, Num(1))>>)} :
          Start(s, "get", [shared |-> shared, table |-> TableT, where |-> where],
                Options(shared), get(TableT, where, Options(shared)))

Insert(s) ==
    /\ s = "a"
    /\ Free(s)
    /\ \E shared \in Sharing(s), rows \in RowsArgs :
          Start(s, "insert", [shared |-> shared, table |-> TableT, rows |-> rows],
                Options(shared), insert(TableT, rows, Options(shared)))

Update(s) ==
    /\ Free(s)
    /\ \E shared \in Sharing(s), row \in {Row1, Row2, RowNoId} :
          Start(s, "update", [shared |-> shared, table |-> TableT, row |-> row],
                Options(shared), update(TableT, row, Options(shared)))

UpdateRows(s) ==
    /\ s = "a"
    /\ Free(s)
    /\ \E options \in BatchArgs :
          Start(s, "updateRows", [shared |-> FALSE, table |-> TableT, options |-> options],
                NoOptions, updateRows(TableT, options))

Delete(s) ==
    /\ s = "a"
    /\ Free(s)
    /\ \E where \in WhereArgs :
          Start(s, "delete", [shared |-> FALSE, table |-> TableT, where |-> where],
                NoOptions, delete(TableT, where))

Locks(s) ==
    /\ s = "a"
    /\ Free(s)
    /\ \E tables \in LocksArgs :
          Start(s, "locks", [shared |-> FALSE, tables |-> tables], NoOptions, locks(tables))

LockOne(s) ==
    /\ s = "a"
    /\ Free(s)
    /\ \E l \in {Lock(TableT, LowerWrite, AliasX), Lock(TableT, Bogus, Undef)} :
          Start(s, "lockOne", [shared |-> FALSE, tables |-> Arr(<<l>>)], NoOptions,
                lockOne(Get(l, TABLENAME), Get(l, LOCKTYPE), Get(l, TABLEALIAS)))

Unlock(s) ==
    /\ s = "a"
    /\ Free(s)
    /\ Start(s, "unlock", [shared |-> FALSE], NoOptions, unlock)

\* the delegate answers with rows: query returns them and the operation returns
Resolve(s) ==
    /\ calls[s].st = "await"
    /\ \E rows \in DelegateRows(calls[s].op) :
          LET p == Projection(calls[s].op, rows)
          IN  calls' = [calls EXCEPT ![s] =
                           IF p.thrown = "none"
                           THEN [@ EXCEPT !.st = "returned", !.rows = rows, !.res = p.value]
                           ELSE [@ EXCEPT !.st = "failed", !.rows = rows,
                                          !.err = [NoError EXCEPT !.kind = p.thrown]]]
    /\ UNCHANGED <<opts, supplied, arg, out>>

\* the delegate fails: query annotates the error and throws it again
Reject(s) ==
    /\ calls[s].st = "await"
    /\ \E e \in DelegateErrors :
          calls' = [calls EXCEPT ![s] =
                       [@ EXCEPT !.st = "failed", !.raised = e,
                                 !.err = queryCatch(e, calls[s].sql)]]
    /\ UNCHANGED <<opts, supplied, arg, out>>

Next ==
    \E s \in Sites :
        \/ Count(s) \/ Select(s) \/ Get_(s) \/ Insert(s) \/ Update(s)
        \/ UpdateRows(s) \/ Delete(s) \/ Locks(s) \/ LockOne(s) \/ Unlock(s)
        \/ Resolve(s) \/ Reject(s)

Spec == Init /\ [][Next]_vars

-----------------------------------------------------------------------------
(* The builders on their own: the argument is drawn from a bounded set and   *)
(* the builder is applied to it once.                                        *)

MaxKeys == 2
MaxElems == 2
MaxBatch == 2
MaxLocks == 2

SeqsUpTo(S, n) == UNION {[1..k -> S] : k \in 0..n}

DistinctKeys(kv) == \A i, j \in 1..Len(kv) : kv[i].k = kv[j].k => i = j

WhereColumns == {ID, NAME, <<"?">>}
WhereElems == {Num(1), Str(<<"?">>)}
WhereValues == {Num(1), Null, Undef, Str(<<"a", "'">>), Str(<<"?">>)}
                   \cup {Arr(xs) : xs \in SeqsUpTo(WhereElems, MaxElems)}

WhereSpecs ==
    {Undef, Null}
        \cup {Obj(kv) : kv \in {q \in SeqsUpTo({KV(k, v) : k \in WhereColumns, v \in WhereValues},
                                               MaxKeys) : DistinctKeys(q)}}

\* no call is made and no options object is kept
Pure == calls = <<>> /\ opts = Undef /\ supplied = Undef

InitWhere == Pure /\ arg \in WhereSpecs /\ out = NotApplied

ApplyWhere ==
    /\ out.op = ""
    /\ out' = [op |-> "_where", r |-> Composed(_where(arg), NoOptions)]
    /\ UNCHANGED <<opts, supplied, calls, arg>>

NextWhere == ApplyWhere

SpecWhere == InitWhere /\ [][NextWhere]_vars

GROUP == <<"g">>

BatchWheres == {Obj(<<KV(ID, Null)>>),
                Obj(<<KV(ID, Arr(<<Num(1), Num(2)>>))>>),
                Obj(<<KV(ID, Str(<<"?">>))>>),
                Obj(<<KV(ID, Num(1)), KV(GROUP, Num(1))>>),
                Obj(<<KV(ID, Num(2)), KV(GROUP, Num(2))>>)}

BatchOptions ==
    {Obj(<<KV(ID, i), KV(c, v)>>) :
        i \in {Num(1), Num(2)}, c \in {NAME, GROUP}, v \in {Str(<<"a">>), Num(5)}}
        \cup {Obj(<<KV(ROW, Obj(<<KV(NAME, Str(<<"b">>))>>)), KV(WHERE_, w)>>) : w \in BatchWheres}
        \cup {RowNoId}

Batches == {Arr(xs) : xs \in SeqsUpTo(BatchOptions, MaxBatch)}

InitRows == Pure /\ arg \in Batches /\ out = NotApplied

ApplyUpdateRows ==
    /\ out.op = ""
    /\ out' = [op |-> "updateRows", r |-> updateRows(TableT, arg)]
    /\ UNCHANGED <<opts, supplied, calls, arg>>

NextRows == ApplyUpdateRows

SpecRows == InitRows /\ [][NextRows]_vars

LockEntries ==
    {Lock(n, t, a) :
        n \in {TableT, Undef},
        t \in {READ, LowerWrite, Bogus, Undef,
               Str(<<"R", "e", "a", "d", " ", "L", "o", "c", "a", "l">>)},
        a \in {Undef, AliasX}}

LockLists == {Arr(xs) : xs \in SeqsUpTo(LockEntries, MaxLocks)}

InitLocks == Pure /\ arg \in LockLists /\ out = NotApplied

ApplyLocks ==
    /\ out.op = ""
    /\ out' = [op |-> "locks", r |-> locks(arg)]
    /\ UNCHANGED <<opts, supplied, calls, arg>>

ApplyLockOne ==
    /\ out.op = ""
    /\ Len(arg.xs) = 1
    /\ out' = [op |-> "lockOne",
               r |-> lockOne(Get(arg.xs[1], TABLENAME), Get(arg.xs[1], LOCKTYPE),
                             Get(arg.xs[1], TABLEALIAS))]
    /\ UNCHANGED <<opts, supplied, calls, arg>>

NextLocks == ApplyLocks \/ ApplyLockOne

SpecLocks == InitLocks /\ [][NextLocks]_vars

-----------------------------------------------------------------------------
(* What the specification says, stated without the composer *)

Absent(v) == v.t \in {"undef", "null"}

IsPrefix(p, q) == Len(p) <= Len(q) /\ SubSeq(q, 1, Len(p)) = p
IsSuffix(p, q) == Len(p) <= Len(q) /\ SubSeq(q, Len(q) - Len(p) + 1, Len(q)) = p

\* the condition that buildWhere is specified to emit for one key
ExpectedCondition(k, v) ==
    EscapeIdChars(Str(k))
        \o (IF v.t = "arr"
            THEN <<" IN (">>
                     \o Join([i \in 1..Len(v.xs) |-> EscapeChars(v.xs[i])], <<",", " ">>)
                     \o <<")">>
            ELSE IF Absent(v) THEN <<" IS ", "N", "U", "L", "L">>
            ELSE <<" = ">> \o EscapeChars(v))

\* the text that buildWhere is specified to return
ExpectedWhere(where) ==
    IF Absent(where) \/ ForIn(where) = <<>> THEN <<>>
    ELSE <<" WHERE", " ">>
             \o Join([i \in 1..Len(where.kv) |->
                         ExpectedCondition(where.kv[i].k, where.kv[i].v)],
                     <<" AND ">>)

\* the SET clause that updateRows is specified to compose for a batch
ExpectedSet(table, batch) ==
    LET req == [i \in 1..Len(batch) |-> Normalize(batch[i])]
        cols == Distinct(Concat([i \in 1..Len(req) |->
                                    [j \in 1..Len(req[i].row.kv) |-> req[i].row.kv[j].k]]),
                         FALSE)
        cond(r) == IF ExpectedWhere(r.where) = <<>> THEN <<>> ELSE Tail(ExpectedWhere(r.where))
        branch(r, col) ==
            <<" WHEN ">> \o cond(r) \o <<" THEN ">> \o EscapeChars(Get(r.row, col)) \o <<" ">>
        case(col) ==
            LET setting == SelectSeq(req, LAMBDA r : HasKey(r.row, col))
            IN  <<" ">> \o EscapeIdChars(Str(col)) \o <<" = CASE ">>
                    \o Join([i \in 1..Len(setting) |-> branch(setting[i], col)], <<" ">>)
                    \o <<" ELSE ">> \o EscapeIdChars(Str(col)) \o <<" END ">>
    IN  <<"UPDATE ">> \o EscapeIdChars(table) \o <<" SET ">>
            \o Join([k \in 1..Len(cols) |-> case(cols[k])], <<" , ">>)

\* rows of a table with the columns id and g, and when a row satisfies the
\* clause that _where emits for a WhereSpec (a comparison with NULL is not true)
DbRows == [{ID, GROUP} -> {Num(1), Num(2), Null}]

MatchesValue(d, v) ==
    IF v.t = "arr" THEN d # Null /\ \E i \in 1..Len(v.xs) : v.xs[i] = d
    ELSE IF Absent(v) THEN d = Null
    ELSE d # Null /\ v = d

Matches(dbrow, where) ==
    \A i \in 1..Len(where.kv) : MatchesValue(dbrow[where.kv[i].k], where.kv[i].v)

\* the LOCK TABLES statement that the specification describes
ExpectedLocks(list) ==
    LET entry(i) ==
            (IF i > 1 THEN <<", ">> ELSE <<>>)
                \o <<" ">> \o EscapeIdChars(Get(list[i], TABLENAME)) \o <<" ">>
                \o (IF Absent(Get(list[i], TABLEALIAS)) THEN <<>>
                    ELSE <<" AS ">> \o EscapeIdChars(Get(list[i], TABLEALIAS)) \o <<" ">>)
                \o <<" ">> \o toUpperCase(Get(list[i], LOCKTYPE).s)
    IN  <<"LOCK TABLES ">> \o Concat([i \in 1..Len(list) |-> entry(i)]) \o <<";">>

\* a lock list that the specification says must be refused
BadLocks(list) ==
    \/ Len(list) = 0
    \/ \E i \in 1..Len(list) :
          \/ Absent(Get(list[i], TABLENAME))
          \/ Absent(Get(list[i], LOCKTYPE))
          \/ toUpperCase(Get(list[i], LOCKTYPE).s) \notin LockTypes

\* a call that the specification says is a configuration error
Misuse(c) ==
    CASE c.op = "update" -> Absent(c.entry.where) /\ ~HasKey(c.args.row, ID)
      [] c.op = "updateRows" ->
            \/ c.args.options.t # "arr"
            \/ \E i \in 1..Len(c.args.options.xs) :
                  LET o == c.args.options.xs[i]
                  IN  ~HasKey(o, ID) /\ ~(HasKey(o, ROW) /\ HasKey(o, WHERE_))
      [] c.op \in {"locks", "lockOne"} -> BadLocks(c.args.tables.xs)
      [] OTHER -> FALSE

\* what the operation composes when it runs on its arguments with the options
\* object as given
Compose(op, args, options) ==
    CASE op = "count" -> count(args.table, args.where)
      [] op = "select" -> select(args.table, options)
      [] op = "get" -> get(args.table, args.where, options)
      [] op = "insert" -> insert(args.table, args.rows, options)
      [] op = "update" -> update(args.table, args.row, options)
      [] op = "updateRows" -> updateRows(args.table, args.options)
      [] op = "delete" -> delete(args.table, args.where)
      [] op \in {"locks", "lockOne"} -> locks(args.tables)
      [] OTHER -> unlock

\* the call run alone on the arguments as the caller supplied them
Alone(c) == Compose(c.op, c.args, IF c.args.shared THEN supplied ELSE NoOptions)

-----------------------------------------------------------------------------
(* The claims *)

\* C1: a call that is a configuration error (update without options.where on
\* a row without id; updateRows with a non-array or with an entry that has
\* neither id nor row and where; locks / lockOne with an empty list, an entry
\* without tableName or lockType, or a lockType outside the four) has failed
\* and the delegate has received no call from it.
C1_ConfigErrorsNeverReachDelegate ==
    \A s \in Sites :
        (calls[s].st # "idle" /\ Misuse(calls[s]))
            => (calls[s].st = "failed" /\ calls[s].nq = 0 /\ calls[s].err.kind = "config")

\* C1 witness: a locks call whose second entry is the offending one has failed.
C1_Witness ==
    \E s \in Sites :
        /\ calls[s].op = "locks"
        /\ calls[s].st = "failed"
        /\ Len(calls[s].args.tables.xs) = 2
        /\ ~BadLocks(<<calls[s].args.tables.xs[1]>>)
        /\ BadLocks(<<calls[s].args.tables.xs[2]>>)

\* C2: in the SQL that updateRows hands to query every token is template text
\* of the composer or the output of escape / escapeId put in place of a
\* template placeholder: nothing is concatenated raw and no text that came
\* from caller data is read again as a placeholder.
C2_SingleTrustBoundary ==
    (out.op = "updateRows" /\ out.r.thrown = "none")
        => \A i \in 1..Len(out.r.sql) : out.r.sql[i].o \in {"t", "e"}

\* C3: every call that is not a configuration error reaches the delegate
\* exactly once (never twice), and once the delegate has answered with rows
\* the call has returned them (get: the first row or null; count: the count of
\* row 0, when there is a row 0).
C3_ExactlyOneDelegateCall ==
    \A s \in Sites :
        LET c == calls[s]
        IN  /\ c.nq <= 1
            /\ (c.st # "idle" /\ ~Misuse(c)) => c.nq = 1
            /\ (c.rows # Undef /\ ~(c.op = "count" /\ c.rows.xs = <<>>))
                   => /\ c.st = "returned"
                      /\ c.res = CASE c.op = "count" -> Get(c.rows.xs[1], COUNT)
                                   [] c.op = "get" ->
                                        IF c.rows.xs = <<>> THEN Null ELSE c.rows.xs[1]
                                   [] OTHER -> c.rows

\* C4: when the delegate has failed, the call has failed with that same error,
\* its stack extended by the SQL text and nothing else changed, after one
\* delegate call; and a call fails with a delegate error only when the
\* delegate failed.
C4_DelegateFailurePropagates ==
    \A s \in Sites :
        LET c == calls[s]
        IN  /\ c.raised # NoError
                => /\ c.st = "failed"
                   /\ c.nq = 1
                   /\ c.err = [c.raised EXCEPT
                                  !.stack = @ \o <<"\n    sql: ">> \o Chars(c.sql)]
            /\ (c.st = "failed" /\ c.err.kind = "delegate") => c.raised # NoError

\* C4 witness: the delegate has failed on the statement of an updateRows call.
C4_Witness ==
    \E s \in Sites : calls[s].op = "updateRows" /\ calls[s].raised # NoError

\* C5: an update call made with options.where absent fails with a
\* configuration error before the delegate when the row has no id, and
\* otherwise hands the delegate a statement that ends with the WHERE clause on
\* id = row.id; so a statement of such a call always has a WHERE clause.
C5_UpdateGuard ==
    \A s \in Sites :
        LET c == calls[s]
        IN  (c.op = "update" /\ Absent(c.entry.where))
                => IF HasKey(c.args.row, ID)
                   THEN /\ c.nq = 1
                        /\ IsSuffix(ExpectedWhere(Obj(<<KV(ID, Get(c.args.row, ID))>>)),
                                    Chars(c.sql))
                        /\ \E i \in 1..Len(c.sql) : c.sql[i].c = " WHERE"
                   ELSE c.st = "failed" /\ c.err.kind = "config" /\ c.nq = 0

\* C5 witness: an update of a row with an id, made without options.where after
\* an earlier call, awaits the delegate.
C5_Witness ==
    \E s \in Sites :
        /\ calls[s].op = "update"
        /\ Absent(calls[s].entry.where)
        /\ HasKey(calls[s].args.row, ID)
        /\ calls[s].st = "await"
        /\ \E u \in Sites \ {s} : calls[u].st = "returned"

\* C6: _where returns '' for an absent or empty WhereSpec and otherwise
\* ' WHERE ' and one condition per key, in order, joined by ' AND ': IN (the
\* escaped elements) for an array, IS NULL for null or undefined, = the
\* escaped value for anything else, each on the escaped column.
C6_BuildWhere ==
    out.op = "_where" => Chars(out.r.sql) = ExpectedWhere(arg)

\* C6 witness: _where was applied to a WhereSpec of two keys, one with an
\* array of two elements and one with null.
C6_Witness ==
    /\ out.op = "_where"
    /\ arg.t = "obj"
    /\ Len(arg.kv) = 2
    /\ arg.kv[1].v.t = "arr"
    /\ Len(arg.kv[1].v.xs) = 2
    /\ arg.kv[2].v = Null

\* C7: the statement updateRows composes starts with UPDATE table SET and one
\* col = CASE ... ELSE col END per column of the batch, in first-seen order,
\* each with one WHEN condition THEN value per request that sets the column,
\* the value being the escaped value of that request's row.
C7_UpdateRowsCases ==
    (out.op = "updateRows" /\ out.r.thrown = "none")
        => IsPrefix(ExpectedSet(TableT, arg.xs), Chars(out.r.sql))

\* C8: a table row satisfies the WHERE clause that updateRows emits for a
\* non-empty batch exactly when it satisfies the where condition of at least
\* one request of the batch.
C8_UpdateRowsScope ==
    (out.op = "updateRows" /\ out.r.thrown = "none" /\ Len(arg.xs) > 0)
        => LET norm == [i \in 1..Len(arg.xs) |-> Normalize(arg.xs[i])]
           IN  \A dbrow \in DbRows :
                   Matches(dbrow, WHERE(norm))
                       <=> \E i \in 1..Len(norm) : Matches(dbrow, norm[i].where)

\* C9: the statement locks / lockOne compose lists the entries in order, each
\* as escaped tableName, AS escaped alias when one is given, and the lock type
\* in uppercase.
C9_LockStatement ==
    (out.op \in {"locks", "lockOne"} /\ out.r.thrown = "none")
        => Chars(out.r.sql) = ExpectedLocks(arg.xs)

\* C10: the SQL a call hands to the delegate is the SQL it composes when it
\* runs alone on its arguments with the options object as the caller built it.
C10_Stateless ==
    \A s \in Sites :
        calls[s].nq > 0
            => /\ Alone(calls[s]).thrown = "none"
               /\ Chars(calls[s].sql) = Chars(Alone(calls[s]).sql)

=============================================================================
